---- MODULE Spec2Model ----
(***************************************************************************)
(* Field Insights Dashboard backend: batch ingestion (POST /sensor-data),  *)
(* the Celery batch worker, the daily rollup, the retention sweep and the  *)
(* task status endpoint, over the two tables sensor_readings and           *)
(* daily_stats.                                                            *)
(*                                                                         *)
(* Time is counted in ticks, TicksPerDay ticks to a calendar day.  Every   *)
(* database transaction is modelled at READ COMMITTED: a statement sees    *)
(* the rows committed when it runs, and a transaction's writes become      *)
(* visible to the others at its commit.                                    *)
(***************************************************************************)
EXTENDS Integers, Sequences, FiniteSets, TLC

\* ---------------------------------------------------------------- constants
THRESHOLD == 100            \* main.py: if len(readings) > 100
RetentionDays == 90         \* tasks.py: timedelta(days=90)
ProgressEvery == 10         \* tasks.py: if i % 10 == 0

\* ------------------------------------------------------------------- bounds
MaxRequests == 1            \* POST /sensor-data calls in one behaviour
MaxTicks == 1               \* ticks the clock advances
TicksPerDay == 2            \* resolution of a timestamp within a day

\* the behaviours start at the last tick of a day
StartNow == (RetentionDays + 3) * TicksPerDay - 1

VARIABLES
    now,            \* wall clock, in ticks (datetime.now())
    readings,       \* committed rows of table sensor_readings
    dailyStats,     \* committed rows of table daily_stats
    nextReadingId,  \* autoincrement of sensor_readings.id
    nextStatId,     \* autoincrement of daily_stats.id
    requests,       \* POST /sensor-data calls, in order of arrival
    tasks,          \* process_sensor_data_batch tasks, indexed by task id
    rollups,        \* calculate_daily_stats tasks, in order of enqueueing
    returned        \* what the step just taken returned, when it was a run
                    \* of cleanup_old_data or a call of DELETE /data/clear

vars == <<now, readings, dailyStats, nextReadingId, nextStatId, requests,
          tasks, rollups, returned>>

\* ------------------------------------------------------------------ inputs
\* A batch is described by its length n and the time `base` at which the
\* client built it; reading i of the batch (0-based) is ReadingInput(batch, i).
\* Its timestamps straddle the retention cutoff and fall on the day before
\* and on the day of `base`.
BatchSizes == {0, 3, THRESHOLD, THRESHOLD + 1}

TimestampInput(base, i) ==
    CASE i % 4 = 0 -> base - RetentionDays * TicksPerDay - 1
      [] i % 4 = 1 -> base - RetentionDays * TicksPerDay
      [] i % 4 = 2 -> base - TicksPerDay
      [] OTHER     -> base - 1

ReadingInput(batch, i) ==
    [timestamp     |-> TimestampInput(batch.base, i),
     field_id      |-> IF (i \div 4) % 2 = 0 THEN "F1" ELSE "F2",
     sensor_type   |-> IF (i \div 3) % 2 = 0 THEN "temp" ELSE "hum",
     reading_value |-> 10 * (1 + (i % 5))]

\* len(readings)
len(batch) == batch.n

\* ----------------------------------------------------------------- helpers
\* func.date(column) and datetime.now().date(): the calendar day of a tick
Date(ts) == ts \div TicksPerDay

\* sum of reading_value over the rows of S whose value is in `values`, one
\* value at a time
RECURSIVE SumByValue(_, _)
SumByValue(values, S) ==
    IF values = {} THEN 0
    ELSE LET v == CHOOSE x \in values : TRUE
         IN  v * Cardinality({ r \in S : r.reading_value = v })
               + SumByValue(values \ {v}, S)

\* sum of reading_value over a set of rows
SumValues(S) == SumByValue({ r.reading_value : r \in S }, S)

MinOf(S) == CHOOSE x \in S : \A y \in S : x <= y
MaxOf(S) == CHOOSE x \in S : \A y \in S : x >= y

\* a set in some fixed order (the order in which a query returns its rows)
RECURSIVE SeqOf(_)
SeqOf(S) ==
    IF S = {} THEN <<>>
    ELSE LET x == CHOOSE y \in S : TRUE IN <<x>> \o SeqOf(S \ {x})

RECURSIVE Gcd(_, _)
Gcd(a, b) == IF b = 0 THEN a ELSE Gcd(b, a % b)

\* mutant: the average is the quotient rounded down to a whole number
Avg_Floor(sum, count) == <<sum \div count, 1>>

\* func.avg / sum(values) / len(values): the exact quotient, as a reduced
\* fraction <<numerator, denominator>>
Avg(sum, count) ==
    LET g == Gcd(sum, count) IN <<sum \div g, count \div g>>

\* mutant: the rows of a batch share one primary key
RowAt_SharedId(batch, first, i) ==
    [id            |-> first,
     timestamp     |-> ReadingInput(batch, i).timestamp,
     field_id      |-> ReadingInput(batch, i).field_id,
     sensor_type   |-> ReadingInput(batch, i).sensor_type,
     reading_value |-> ReadingInput(batch, i).reading_value]

\* The rows SensorReading(**reading) that a commit of `batch` inserts, with
\* the primary keys the autoincrement assigns in insertion order.
RowAt(batch, first, i) ==
    [id            |-> first + i,
     timestamp     |-> ReadingInput(batch, i).timestamp,
     field_id      |-> ReadingInput(batch, i).field_id,
     sensor_type   |-> ReadingInput(batch, i).sensor_type,
     reading_value |-> ReadingInput(batch, i).reading_value]

NewRows(batch, first) ==
    { RowAt(batch, first, i) : i \in 0 .. (len(batch) - 1) }

\* mutant: every row is committed on its own, so a failure at the second row
\* leaves the first one stored
CommitBatch_RowByRow(rows, batch, first, ok) ==
    IF ok THEN rows \cup NewRows(batch, first)
    ELSE rows \cup { r \in NewRows(batch, first) : r.id = first }

\* db.commit() of a session holding the pending rows of `batch`: one
\* transaction, all rows or (on failure, ok = FALSE) none.
CommitBatch(rows, batch, first, ok) ==
    IF ok THEN rows \cup NewRows(batch, first) ELSE rows

\* GET /readings: rows matching the given filters ("" = no filter).  limit and
\* offset page through this set in timestamp-descending order.
get_readings(field_id, sensor_type) ==
    { r \in readings :
        /\ (field_id # "" => r.field_id = field_id)
        /\ (sensor_type # "" => r.sensor_type = sensor_type) }

\* ------------------------------------------------------------ analytics
\* return {}: the field has no readings
NoAnalytics ==
    [field_id |-> "", total_readings |-> 0, avg_value |-> <<0, 1>>,
     min_value |-> 0, max_value |-> 0, sensor_types |-> {}]

\* AnalyticsService.get_field_analytics(db, field_id); db is the readings the
\* session sees
AnalyticsService_get_field_analytics(db, field_id) ==
    LET rows   == { r \in db : r.field_id = field_id }
        values == { r.reading_value : r \in rows }
    IN  IF rows = {} THEN NoAnalytics
        ELSE [field_id       |-> field_id,
              total_readings |-> Cardinality(rows),
              avg_value      |-> Avg(SumValues(rows), Cardinality(rows)),
              min_value      |-> MinOf(values),
              max_value      |-> MaxOf(values),
              sensor_types   |-> { r.sensor_type : r \in rows }]

\* GET /analytics/field/{field_id}: 404 when the service returns {}
get_field_analytics(db, field_id) ==
    LET analytics == AnalyticsService_get_field_analytics(db, field_id)
    IN  IF analytics = NoAnalytics
        THEN [code |-> 404, body |-> NoAnalytics]
        ELSE [code |-> 200, body |-> analytics]

\* --------------------------------------------------------------- responses
NoResponse == [code |-> 0, kind |-> "none", task_id |-> 0, rows |-> {}]

\* raise HTTPException(status_code=500, ...), and FastAPI's own 500
ServerError == [code |-> 500, kind |-> "error", task_id |-> 0, rows |-> {}]

\* The route declares response_model=List[SensorReadingSchema]: FastAPI
\* validates what the handler returns against it.  A list of ORM rows passes
\* (orm_mode); the dict of the background branch is not a list, validation
\* fails and the caller gets a 500.
serialize_response(content) ==
    IF content.kind = "list"
    THEN [code |-> 200, kind |-> "list", task_id |-> 0, rows |-> content.rows]
    ELSE ServerError

\* ------------------------------------------------------------ Celery state
NoInfo == [current |-> 0, total |-> 0, status |-> "", processed_count |-> 0,
           message |-> "", count |-> 0, error |-> ""]

\* mutant: progress counts the readings still to do
ProgressMeta_Remaining(c, n) == [NoInfo EXCEPT !.current = n - c, !.total = n]

\* self.update_state(state='PROGRESS', meta={'current': c, 'total': n})
ProgressMeta(c, n) == [NoInfo EXCEPT !.current = c, !.total = n]

\* mutant: the count reported is the last loop index, not processed_count
SuccessResult_LastIndex(k) ==
    [NoInfo EXCEPT !.status = "SUCCESS", !.processed_count = k - 1,
                   !.message = "Successfully processed", !.count = k - 1]

\* return {'status': 'SUCCESS', 'processed_count': k, 'message': f'...{k}...'}
SuccessResult(k) ==
    [NoInfo EXCEPT !.status = "SUCCESS", !.processed_count = k,
                   !.message = "Successfully processed", !.count = k]

\* except Exception as e: return {'status': 'FAILURE', 'error': str(e)}
FailureResult(e) == [NoInfo EXCEPT !.status = "FAILURE", !.error = e]

\* Celery records a task whose function returns as SUCCESS, with the returned
\* value as its result; only an exception leaving the function gives FAILURE.
ReturnedState == "SUCCESS"

NewTask(batch, q) ==
    [batch |-> batch, request |-> q, pc |-> "queued", i |-> 0,
     processed_count |-> 0, state |-> "PENDING", info |-> NoInfo,
     first |-> 0, committed |-> FALSE, error |-> "", chained |-> 0]

\* celery_app.AsyncResult(task_id).state: PENDING for an id the backend has
\* no record of
AsyncState(task_id) ==
    IF task_id \in DOMAIN tasks THEN tasks[task_id].state ELSE "PENDING"

AsyncInfo(task_id) ==
    IF task_id \in DOMAIN tasks THEN tasks[task_id].info ELSE NoInfo

\* GET /task/{task_id}
get_task_status(task_id) ==
    LET state == AsyncState(task_id)
        info  == AsyncInfo(task_id)
    IN  IF state = "PENDING"
        THEN [task_id |-> task_id, status |-> "PENDING",
              message |-> "Task is pending", a |-> 0, b |-> 0]
        ELSE IF state = "PROGRESS"
        THEN [task_id |-> task_id, status |-> "PROGRESS",
              message |-> "Task is in progress",
              a |-> info.current, b |-> info.total]
        ELSE IF state = "SUCCESS"
        THEN [task_id |-> task_id, status |-> "SUCCESS",
              message |-> IF info.message # "" THEN info.message
                          ELSE "Task completed successfully",
              a |-> info.count, b |-> 0]
        ELSE [task_id |-> task_id, status |-> "FAILURE",
              message |-> info.error, a |-> 0, b |-> 0]

\* ---------------------------------------------------------- returned values
Nothing == [op |-> "", status |-> "", deleted_count |-> 0,
            sensor_readings_deleted |-> 0, daily_stats_deleted |-> 0]

\* cleanup_old_data: return {'status': 'SUCCESS', 'deleted_count': k, ...}
CleanupSuccess(k) ==
    [Nothing EXCEPT !.op = "cleanup", !.status = "SUCCESS", !.deleted_count = k]

\* cleanup_old_data: return {'status': 'FAILURE', 'error': str(e)}
CleanupFailure == [Nothing EXCEPT !.op = "cleanup", !.status = "FAILURE"]

\* mutant: the two counts are reported under each other's name
ClearSuccess_Swapped(a, b) ==
    [Nothing EXCEPT !.op = "clear", !.status = "200",
                    !.sensor_readings_deleted = b, !.daily_stats_deleted = a]

\* clear_all_data: the counts of the two DELETE statements
ClearSuccess(a, b) ==
    [Nothing EXCEPT !.op = "clear", !.status = "200",
                    !.sensor_readings_deleted = a, !.daily_stats_deleted = b]

\* clear_all_data: db.rollback() and HTTPException(status_code=500)
ClearFailure == [Nothing EXCEPT !.op = "clear", !.status = "500"]

\* ------------------------------------------------------------------- Init
Init ==
    /\ now = StartNow
    /\ readings = {}
    /\ dailyStats = {}
    /\ nextReadingId = 1
    /\ nextStatId = 1
    /\ requests = <<>>
    /\ tasks = <<>>
    /\ rollups = <<>>
    /\ returned = Nothing

\* The clock advances.
Tick ==
    /\ now < StartNow + MaxTicks
    /\ now' = now + 1
    /\ UNCHANGED <<readings, dailyStats, nextReadingId, nextStatId, requests,
                   tasks, rollups>>
    /\ returned' = Nothing

\* --------------------------------------------------------- POST /sensor-data
NewRequest(batch, route, pc, first, task, response) ==
    [batch |-> batch, route |-> route, pc |-> pc, first |-> first,
     task |-> task, response |-> response]

\* what the handler returns on each branch
TaskContent(task_id) ==
    [kind |-> "dict", rows |-> {}, task_id |-> task_id, status |-> "processing"]

ListContent(rows) ==
    [kind |-> "list", rows |-> rows, task_id |-> 0, status |-> ""]

\* The dispatch of create_sensor_data: TRUE when the batch goes to Celery.
UsesBackground(batch) == len(batch) > THRESHOLD

\* create_sensor_data up to the commit of the synchronous branch, or whole on
\* the background branch.  ok = FALSE: the commit, or the enqueueing, raises.
create_sensor_data(n, ok) ==
    /\ LET batch == [n |-> n, base |-> now]
           q     == Len(requests) + 1
           tid   == Len(tasks) + 1
       IN  IF UsesBackground(batch)
           THEN /\ IF ok
                   THEN /\ tasks' = Append(tasks, NewTask(batch, q))
                        /\ requests' = Append(requests,
                              NewRequest(batch, "async", "done", 0, tid,
                                         serialize_response(TaskContent(tid))))
                   ELSE /\ tasks' = tasks
                        /\ requests' = Append(requests,
                              NewRequest(batch, "async", "done", 0, 0, ServerError))
                /\ UNCHANGED <<readings, nextReadingId>>
           ELSE /\ readings' = CommitBatch(readings, batch, nextReadingId, ok)
                /\ IF ok
                   THEN /\ nextReadingId' = nextReadingId + len(batch)
                        /\ requests' = Append(requests,
                              NewRequest(batch, "sync", "refresh", nextReadingId,
                                         0, NoResponse))
                   ELSE /\ nextReadingId' = nextReadingId
                        /\ requests' = Append(requests,
                              NewRequest(batch, "sync", "done", 0, 0, ServerError))
                /\ tasks' = tasks
    /\ UNCHANGED <<now, dailyStats, nextStatId, rollups>>
    /\ returned' = Nothing

\* db.refresh(reading) for each row of the batch: the row is read back by its
\* primary key, and a row that is gone makes refresh raise.
Refreshed(req) ==
    { r \in readings :
        r.id \in req.first .. (req.first + len(req.batch) - 1) }

\* The rest of the synchronous branch: the refresh loop, return db_readings,
\* and the response.  ok = FALSE: a refresh query fails.
refresh_and_return(q, ok) ==
    /\ q \in DOMAIN requests
    /\ requests[q].pc = "refresh"
    /\ LET req  == requests[q]
           rows == Refreshed(req)
           resp == IF ok /\ Cardinality(rows) = len(req.batch)
                   THEN serialize_response(ListContent(rows))
                   ELSE ServerError
       IN  requests' = [requests EXCEPT ![q].pc = "done", ![q].response = resp]
    /\ UNCHANGED <<now, readings, dailyStats, nextReadingId, nextStatId, tasks,
                   rollups>>
    /\ returned' = Nothing

\* ------------------------------------------------ process_sensor_data_batch
\* Is there an index j >= i of the loop at which progress is reported?
HasUpdate(i, n) == \E j \in i .. (n - 1) : j % ProgressEvery = 0

NextUpdate(i, n) ==
    CHOOSE j \in i .. (n - 1) :
        /\ j % ProgressEvery = 0
        /\ \A k \in i .. (j - 1) : k % ProgressEvery # 0

\* the except branch: the error is logged and a dict is returned (the locals
\* of the function are gone)
TaskFailed(task, e) ==
    [task EXCEPT !.pc = "done", !.state = ReturnedState,
                 !.info = FailureResult(e), !.error = e,
                 !.i = 0, !.processed_count = 0]

\* the return after the commit and the chained trigger
TaskSucceeded(task, first, rollup) ==
    [task EXCEPT !.pc = "done", !.state = ReturnedState,
                 !.info = SuccessResult(task.processed_count + (len(task.batch) - task.i)),
                 !.processed_count = 0, !.i = 0,
                 !.first = first, !.committed = TRUE, !.chained = rollup]

NewRollup(parent) ==
    [pc |-> "queued", yesterday |-> 0, delIds |-> {}, stats |-> {},
     result |-> "", parent |-> parent]

\* The worker picks the task up: the first update_state.
WorkerStart(t, ok) ==
    /\ t \in DOMAIN tasks
    /\ tasks[t].pc = "queued"
    /\ tasks' = [tasks EXCEPT ![t] =
          IF ok
          THEN [tasks[t] EXCEPT !.pc = "loop", !.state = "PROGRESS",
                                !.info = ProgressMeta(0, len(tasks[t].batch))]
          ELSE TaskFailed(tasks[t], "update_state")]
    /\ UNCHANGED <<now, readings, dailyStats, nextReadingId, nextStatId,
                   requests, rollups>>
    /\ returned' = Nothing

\* The loop up to and including its next update_state: the rows are added to
\* the session (nothing reaches the database) and counted.
WorkerLoop(t, ok) ==
    /\ t \in DOMAIN tasks
    /\ tasks[t].pc = "loop"
    /\ HasUpdate(tasks[t].i, len(tasks[t].batch))
    /\ LET u == NextUpdate(tasks[t].i, len(tasks[t].batch))
       IN  tasks' = [tasks EXCEPT ![t] =
              IF ok
              THEN [tasks[t] EXCEPT
                       !.i = u + 1,
                       !.processed_count = @ + (u + 1 - tasks[t].i),
                       !.state = "PROGRESS",
                       !.info = ProgressMeta(u, len(tasks[t].batch))]
              ELSE TaskFailed(tasks[t], "update_state")]
    /\ UNCHANGED <<now, readings, dailyStats, nextReadingId, nextStatId,
                   requests, rollups>>
    /\ returned' = Nothing

\* The rest of the loop, db.commit(), calculate_daily_stats.delay() and the
\* return.  outcome: "ok", "commit" (the commit raises) or "enqueue" (the
\* commit succeeds and delay() raises).
WorkerCommit(t, outcome) ==
    /\ t \in DOMAIN tasks
    /\ tasks[t].pc = "loop"
    /\ ~HasUpdate(tasks[t].i, len(tasks[t].batch))
    /\ readings' = CommitBatch(readings, tasks[t].batch, nextReadingId,
                               outcome # "commit")
    /\ nextReadingId' = IF outcome # "commit"
                        THEN nextReadingId + len(tasks[t].batch)
                        ELSE nextReadingId
    /\ rollups' = IF outcome = "ok" THEN Append(rollups, NewRollup(t)) ELSE rollups
    /\ tasks' = [tasks EXCEPT ![t] =
          IF outcome = "ok"
          THEN TaskSucceeded(tasks[t], nextReadingId, Len(rollups) + 1)
          ELSE IF outcome = "commit"
          THEN TaskFailed(tasks[t], "commit")
          ELSE [TaskFailed(tasks[t], "enqueue") EXCEPT
                   !.first = nextReadingId, !.committed = TRUE]]
    /\ UNCHANGED <<now, dailyStats, nextStatId, requests>>
    /\ returned' = Nothing

\* ---------------------------------------------------- calculate_daily_stats
\* date -> the DateTime stored in daily_stats.date (midnight of that day)
DayStart(d) == d * TicksPerDay

\* mutant: the rows of the day are not purged before the inserts
StatsToDelete_Nothing(stats, yesterday) == {}

\* the ids of the rows DELETE ... WHERE date(daily_stats.date) = yesterday hits
StatsToDelete(stats, yesterday) ==
    { s.id : s \in { x \in stats : Date(x.date) = yesterday } }

\* stats_query: one row per (field_id, sensor_type) over yesterday's readings
StatsQuery(rows, yesterday) ==
    LET day  == { r \in rows : Date(r.timestamp) = yesterday }
        keys == { <<r.field_id, r.sensor_type>> : r \in day }
        G(k) == { r \in day : r.field_id = k[1] /\ r.sensor_type = k[2] }
    IN  { [field_id       |-> k[1],
           sensor_type    |-> k[2],
           avg_value      |-> Avg(SumValues(G(k)), Cardinality(G(k))),
           min_value      |-> MinOf({ r.reading_value : r \in G(k) }),
           max_value      |-> MaxOf({ r.reading_value : r \in G(k) }),
           count_readings |-> Cardinality(G(k))] : k \in keys }

\* the DailyStats rows added for the query's rows, with their primary keys
StatRows(groups, yesterday, first) ==
    LET sq == SeqOf(groups)
    IN  { [id             |-> first + i - 1,
           date           |-> DayStart(yesterday),
           field_id       |-> sq[i].field_id,
           sensor_type    |-> sq[i].sensor_type,
           avg_value      |-> sq[i].avg_value,
           min_value      |-> sq[i].min_value,
           max_value      |-> sq[i].max_value,
           count_readings |-> sq[i].count_readings] : i \in 1 .. Len(sq) }

\* db.commit() of the rollup: the deletes and the inserts of the transaction
CommitRollup(stats, delIds, groups, yesterday, first) ==
    { s \in stats : s.id \notin delIds } \cup StatRows(groups, yesterday, first)

\* one run of the task from delete to commit with no other transaction between
calculate_daily_stats(stats, rows, yesterday, first) ==
    CommitRollup(stats, StatsToDelete(stats, yesterday),
                 StatsQuery(rows, yesterday), yesterday, first)

RollupFailed(r) ==
    [r EXCEPT !.pc = "done", !.result = "FAILURE", !.delIds = {}, !.stats = {}]

RollupSucceeded(r) ==
    [r EXCEPT !.pc = "done", !.result = "SUCCESS", !.delIds = {}, !.stats = {}]

\* yesterday is taken from the clock, then the DELETE statement runs
RollupDelete(r, ok) ==
    /\ r \in DOMAIN rollups
    /\ rollups[r].pc = "queued"
    /\ rollups' = [rollups EXCEPT ![r] =
          IF ok
          THEN [rollups[r] EXCEPT
                   !.pc = "deleted",
                   !.yesterday = Date(now) - 1,
                   !.delIds = StatsToDelete(dailyStats, Date(now) - 1)]
          ELSE RollupFailed(rollups[r])]
    /\ UNCHANGED <<now, readings, dailyStats, nextReadingId, nextStatId,
                   requests, tasks>>
    /\ returned' = Nothing

\* stats_query.all()
RollupSelect(r, ok) ==
    /\ r \in DOMAIN rollups
    /\ rollups[r].pc = "deleted"
    /\ rollups' = [rollups EXCEPT ![r] =
          IF ok
          THEN [rollups[r] EXCEPT
                   !.pc = "selected",
                   !.stats = StatsQuery(readings, rollups[r].yesterday)]
          ELSE RollupFailed(rollups[r])]
    /\ UNCHANGED <<now, readings, dailyStats, nextReadingId, nextStatId,
                   requests, tasks>>
    /\ returned' = Nothing

\* the db.add loop and db.commit()
RollupCommit(r, ok) ==
    /\ r \in DOMAIN rollups
    /\ rollups[r].pc = "selected"
    /\ IF ok
       THEN /\ dailyStats' = CommitRollup(dailyStats, rollups[r].delIds,
                                          rollups[r].stats, rollups[r].yesterday,
                                          nextStatId)
            /\ nextStatId' = nextStatId + Cardinality(rollups[r].stats)
            /\ rollups' = [rollups EXCEPT ![r] = RollupSucceeded(rollups[r])]
       ELSE /\ UNCHANGED <<dailyStats, nextStatId>>
            /\ rollups' = [rollups EXCEPT ![r] = RollupFailed(rollups[r])]
    /\ UNCHANGED <<now, readings, nextReadingId, requests, tasks>>
    /\ returned' = Nothing

\* --------------------------------------------------------- cleanup_old_data
\* cutoff_date = datetime.now() - timedelta(days=90)
Cutoff(t) == t - RetentionDays * TicksPerDay

\* mutant: the row stamped exactly at the cutoff is removed too
OlderThan_Inclusive(rows, cutoff) == { r \in rows : r.timestamp <= cutoff }

\* the rows DELETE ... WHERE timestamp < cutoff_date removes
OlderThan(rows, cutoff) == { r \in rows : r.timestamp < cutoff }

cleanup_old_data(ok) ==
    /\ IF ok
       THEN /\ readings' = readings \ OlderThan(readings, Cutoff(now))
            /\ returned' =
                  CleanupSuccess(Cardinality(OlderThan(readings, Cutoff(now))))
       ELSE /\ readings' = readings
            /\ returned' = CleanupFailure
    /\ UNCHANGED <<now, dailyStats, nextReadingId, nextStatId, requests, tasks,
                   rollups>>

\* -------------------------------------------------------- DELETE /data/clear
clear_all_data(ok) ==
    /\ IF ok
       THEN /\ readings' = {}
            /\ dailyStats' = {}
            /\ returned' = ClearSuccess(Cardinality(readings),
                                         Cardinality(dailyStats))
       ELSE /\ UNCHANGED <<readings, dailyStats>>
            /\ returned' = ClearFailure
    /\ UNCHANGED <<now, nextReadingId, nextStatId, requests, tasks, rollups>>

\* -------------------------------------------------------------------- Next
\* every step but the arrival of a request
Steps ==
    \/ Tick
    \/ \E q \in DOMAIN requests, ok \in BOOLEAN : refresh_and_return(q, ok)
    \/ \E t \in DOMAIN tasks, ok \in BOOLEAN : WorkerStart(t, ok)
    \/ \E t \in DOMAIN tasks, ok \in BOOLEAN : WorkerLoop(t, ok)
    \/ \E t \in DOMAIN tasks, o \in {"ok", "commit", "enqueue"} : WorkerCommit(t, o)
    \/ \E r \in DOMAIN rollups, ok \in BOOLEAN : RollupDelete(r, ok)
    \/ \E r \in DOMAIN rollups, ok \in BOOLEAN : RollupSelect(r, ok)
    \/ \E r \in DOMAIN rollups, ok \in BOOLEAN : RollupCommit(r, ok)
    \/ \E ok \in BOOLEAN : cleanup_old_data(ok)
    \/ \E ok \in BOOLEAN : clear_all_data(ok)

\* a POST /sensor-data arrives, at most `limit` of them in a behaviour
Arrival(limit) ==
    /\ Len(requests) < limit
    /\ \E n \in BatchSizes, ok \in BOOLEAN : create_sensor_data(n, ok)

Next == Arrival(MaxRequests) \/ Steps

Spec == Init /\ [][Next]_vars

\* Two POSTs, for what takes two batches that finish close together.
PairNext == Arrival(2) \/ Steps

PairSpec == Init /\ [][PairNext]_vars

\* A deployment in which neither the database nor the broker fails, and in
\* which the Celery worker runs every task it is given.  The behaviours are
\* those of one instant of the clock: the sweep and the rollup, the only
\* readers of the clock, are taken at the time the batches arrive.
FairNext ==
    \/ /\ Len(requests) < MaxRequests
       /\ \E n \in BatchSizes : create_sensor_data(n, TRUE)
    \/ \E q \in DOMAIN requests : refresh_and_return(q, TRUE)
    \/ \E t \in DOMAIN tasks : WorkerStart(t, TRUE)
    \/ \E t \in DOMAIN tasks : WorkerLoop(t, TRUE)
    \/ \E t \in DOMAIN tasks : WorkerCommit(t, "ok")
    \/ \E r \in DOMAIN rollups : RollupDelete(r, TRUE)
    \/ \E r \in DOMAIN rollups : RollupSelect(r, TRUE)
    \/ \E r \in DOMAIN rollups : RollupCommit(r, TRUE)
    \/ cleanup_old_data(TRUE)
    \/ clear_all_data(TRUE)

\* a step of the worker on batch task t
WorkerStep(t) ==
    \/ WorkerStart(t, TRUE)
    \/ WorkerLoop(t, TRUE)
    \/ WorkerCommit(t, "ok")

FairSpec ==
    /\ Init
    /\ [][FairNext]_vars
    /\ \A t \in 1 .. MaxRequests : WF_vars(WorkerStep(t))

\* ------------------------------------------------------------------ claims

\* C1: the routing of a batch is decided by the threshold 100: a batch of fewer
\* than 100 readings is inserted in the request, and a batch of 100 or more
\* (exactly 100 included) is handed to the background task and never inserted
\* in the request.
C1_RoutedByThreshold ==
    \A q \in DOMAIN requests :
        /\ len(requests[q].batch) < THRESHOLD => requests[q].route = "sync"
        /\ len(requests[q].batch) >= THRESHOLD =>
              /\ requests[q].route = "async"
              /\ requests[q].first = 0

\* C2: whenever the batch task is enqueued, the caller's response is a success
\* carrying the task id; no batch is enqueued with an error response or no
\* task id.
C2_EnqueuedAnswersTaskId ==
    \A q \in DOMAIN requests :
        requests[q].task # 0 =>
            /\ requests[q].response.code = 200
            /\ requests[q].response.task_id = requests[q].task

\* the rows of background task t that a query returns
VisibleRowsOf(t) ==
    { r \in get_readings("", "") :
        /\ tasks[t].committed
        /\ r.id \in tasks[t].first .. (tasks[t].first + len(tasks[t].batch) - 1)
        /\ r = RowAt(tasks[t].batch, tasks[t].first, r.id - tasks[t].first) }

\* a step of the worker on task t that comes before its commit
C3_BeforeCommit(t) ==
    /\ tasks'[t] # tasks[t]
    /\ tasks'[t].pc = "loop"

\* task t has been enqueued and no worker has picked it up
C3_Handed(t) == t \in DOMAIN tasks /\ tasks[t].pc = "queued"

C3_Completed(t) ==
    /\ t \in DOMAIN tasks
    /\ get_task_status(t).status = "SUCCESS"
    /\ get_task_status(t).message = "Successfully processed"
    /\ get_task_status(t).a = len(tasks[t].batch)
    /\ Cardinality(VisibleRowsOf(t)) = len(tasks[t].batch)

\* C3: with a fair worker and no failure, every batch handed to the background
\* task eventually has all its rows returned by a query while the status
\* endpoint reports SUCCESS with a processed count equal to the batch size; and
\* the steps of the worker before its commit leave what a query returns
\* unchanged.
C3_BackgroundBatchCompletes ==
    /\ [][\A t \in DOMAIN tasks : C3_BeforeCommit(t) => readings' = readings]_vars
    /\ \A t \in 1 .. MaxRequests : C3_Handed(t) ~> C3_Completed(t)

C3_Witness ==
    \E t \in DOMAIN tasks :
        /\ len(tasks[t].batch) > THRESHOLD
        /\ tasks[t].pc = "done"
        /\ C3_Completed(t)

\* request q took the synchronous branch and was answered with its rows
C4_Answered(q) ==
    /\ q \in DOMAIN requests
    /\ requests[q].route = "sync"
    /\ requests[q].response.code = 200

\* the answer of q holds one persisted row per input, with distinct ids
C4_OneRowPerInput(q) ==
    LET req  == requests[q]
        rows == req.response.rows
    IN  /\ Cardinality(rows) = len(req.batch)
        /\ Cardinality({ r.id : r \in rows }) = len(req.batch)
        /\ \A i \in 0 .. (len(req.batch) - 1) :
              \E r \in rows :
                  /\ r.id = req.first + i
                  /\ r.timestamp = ReadingInput(req.batch, i).timestamp
                  /\ r.field_id = ReadingInput(req.batch, i).field_id
                  /\ r.sensor_type = ReadingInput(req.batch, i).sensor_type
                  /\ r.reading_value = ReadingInput(req.batch, i).reading_value

\* the step just taken was a retention sweep or a DELETE /data/clear
C4_Deletion == returned'.op \in {"cleanup", "clear"}

C4_Step ==
    /\ \A q \in DOMAIN requests' :
          (C4_Answered(q)' /\ ~C4_Answered(q)) =>
              /\ C4_OneRowPerInput(q)'
              /\ requests'[q].response.rows \subseteq get_readings("", "")'
    /\ \A q \in DOMAIN requests :
          (C4_Answered(q) /\ ~C4_Deletion /\ readings' # readings) =>
              \A r \in requests[q].response.rows :
                  r \in get_readings("", "") => r \in get_readings("", "")'

\* C4: a batch on the synchronous path (the empty batch included) is answered
\* with exactly as many persisted rows as it has inputs, each with its own id,
\* and every row of the answer is returned by a query from then on, until a
\* retention sweep or a DELETE /data/clear deletes it.
C4_SyncRowsPersist == [][C4_Step]_vars

C4_Witness ==
    \E q \in DOMAIN requests :
        /\ C4_Answered(q)
        /\ len(requests[q].batch) = THRESHOLD
        /\ requests[q].response.rows \subseteq get_readings("", "")
        /\ now > StartNow

\* the batches whose commit may be the step
C5_Committing ==
    { tasks[t].batch : t \in { u \in DOMAIN tasks : tasks[u].pc = "loop" } }
    \cup { requests'[q].batch : q \in DOMAIN requests' \ DOMAIN requests }

\* the step is a batch insertion that failed: a request answered with an error
\* on arrival, or a task whose worker caught an error before or in its commit
C5_FailedInsert ==
    \/ \E q \in DOMAIN requests' \ DOMAIN requests :
          /\ requests'[q].route = "sync"
          /\ requests'[q].response.code = 500
    \/ \E t \in DOMAIN tasks :
          /\ tasks[t].pc # "done"
          /\ tasks'[t].pc = "done"
          /\ ~tasks'[t].committed

C5_Step ==
    /\ Cardinality(readings') > Cardinality(readings) =>
          /\ readings \subseteq readings'
          /\ \E b \in C5_Committing :
                /\ Cardinality(readings' \ readings) = len(b)
                /\ \A i \in 0 .. (len(b) - 1) :
                      RowAt(b, nextReadingId, i) \in readings'
    /\ C5_FailedInsert => readings' = readings

\* C5: batch insertion is atomic on both paths: a step that adds rows adds all
\* the rows of one batch and nothing else, and a batch whose insertion fails,
\* part-way through included, leaves the stored readings unchanged.
C5_BatchInsertAtomic == [][C5_Step]_vars

C5_Witness ==
    /\ \E t \in DOMAIN tasks :
          /\ tasks[t].pc = "done"
          /\ tasks[t].error = "commit"
    /\ readings = {}

\* C6: a batch task whose worker caught an error ends failed: the status
\* endpoint reports FAILURE with the captured error, never SUCCESS.
C6_ErrorReportedAsFailure ==
    \A t \in DOMAIN tasks :
        (tasks[t].pc = "done" /\ tasks[t].error # "") =>
            /\ get_task_status(t).status = "FAILURE"
            /\ get_task_status(t).message = tasks[t].error

\* C7: once the rows of a batch are committed, no failure of the chained
\* rollup, in its enqueueing or in its run, changes the outcome of the batch
\* task: it is reported succeeded with its processed count.
C7_RollupNeverFailsParent ==
    \A t \in DOMAIN tasks :
        (tasks[t].pc = "done" /\ tasks[t].committed) =>
            /\ tasks[t].state = "SUCCESS"
            /\ tasks[t].info.status = "SUCCESS"
            /\ tasks[t].info.processed_count = len(tasks[t].batch)

\* a DailyStats row without its primary key
C8_Tuple(s) == [date           |-> s.date,
                field_id       |-> s.field_id,
                sensor_type    |-> s.sensor_type,
                avg_value      |-> s.avg_value,
                min_value      |-> s.min_value,
                max_value      |-> s.max_value,
                count_readings |-> s.count_readings]

\* rollup r commits in this step, after a run that no other transaction
\* overlapped: what it deleted and what it aggregated are what the store holds
C8_RanOnce(r) ==
    /\ rollups[r].pc = "selected"
    /\ rollups'[r].pc = "done"
    /\ rollups'[r].result = "SUCCESS"
    /\ rollups[r].delIds = StatsToDelete(dailyStats, rollups[r].yesterday)
    /\ rollups[r].stats = StatsQuery(readings, rollups[r].yesterday)

C8_Step ==
    \A r \in DOMAIN rollups :
        C8_RanOnce(r) =>
            LET day   == DayStart(rollups[r].yesterday)
                once  == dailyStats'
                twice == calculate_daily_stats(once, readings',
                                               rollups[r].yesterday, nextStatId')
            IN  /\ { C8_Tuple(s) : s \in twice } = { C8_Tuple(s) : s \in once }
                /\ Cardinality(twice) = Cardinality(once)
                /\ Cardinality({ s \in once : s.date = day })
                      = Cardinality({ C8_Tuple(s) : s \in { x \in once : x.date = day } })
                /\ { s \in twice : s.date # day } = { s \in once : s.date # day }
                /\ { s \in once : s.date # day } = { s \in dailyStats : s.date # day }

\* C8: calculate_daily_stats is idempotent per day: after a run for a day, a
\* second run for the same day over the same readings leaves the same set of
\* (date, field, sensor type, avg, min, max, count) tuples, with no duplicates,
\* as the first run did, and neither run changes the rows of other days.
C8_RollupIdempotent == [][C8_Step]_vars

C8_Witness ==
    /\ \E r1, r2 \in DOMAIN rollups :
          /\ r1 # r2
          /\ rollups[r1].pc = "done" /\ rollups[r1].result = "SUCCESS"
          /\ rollups[r2].pc = "done" /\ rollups[r2].result = "SUCCESS"
          /\ rollups[r1].yesterday = rollups[r2].yesterday
          /\ \E s \in dailyStats : s.date = DayStart(rollups[r1].yesterday)
    /\ Cardinality(dailyStats) = Cardinality({ C8_Tuple(s) : s \in dailyStats })

\* C9: the store holds at most one DailyStats row per (date, field, sensor
\* type), also after two rollups of the same day ran concurrently and after a
\* rollup failed part-way.
C9_OneRowPerKey ==
    \A s1, s2 \in dailyStats :
        (/\ s1.date = s2.date
         /\ s1.field_id = s2.field_id
         /\ s1.sensor_type = s2.sensor_type) => s1 = s2

\* the step is a retention sweep that succeeded
C10_Swept ==
    /\ returned'.op = "cleanup"
    /\ returned'.status = "SUCCESS"

C10_Step ==
    C10_Swept =>
        /\ readings' = { r \in readings :
                           r.timestamp >= now - RetentionDays * TicksPerDay }
        /\ returned'.deleted_count = Cardinality(readings \ readings')
        /\ dailyStats' = dailyStats

\* C10: the retention sweep deletes exactly the readings stamped strictly
\* before now - 90 days, reports how many they were, leaves every reading
\* stamped at or after the cutoff in place, and leaves DailyStats unchanged.
C10_SweepDeletesOlderThanCutoff == [][C10_Step]_vars

C10_Witness ==
    /\ returned.op = "cleanup"
    /\ returned.status = "SUCCESS"
    /\ returned.deleted_count > 0
    /\ \E r \in readings : r.timestamp = Cutoff(now)
    /\ dailyStats # {}

C11_Step ==
    /\ (returned'.op = "clear" /\ returned'.status = "200") =>
          /\ readings' = {}
          /\ dailyStats' = {}
          /\ get_readings("", "")' = {}
          /\ returned'.sensor_readings_deleted = Cardinality(readings)
          /\ returned'.daily_stats_deleted = Cardinality(dailyStats)
    /\ (returned'.op = "clear" /\ returned'.status # "200") =>
          /\ readings' = readings
          /\ dailyStats' = dailyStats

\* C11: DELETE /data/clear removes every reading and every DailyStats row and
\* reports how many rows each table held before the call; after a success a
\* query returns no rows, and after a failure both tables are as they were.
C11_ClearDeletesEverything == [][C11_Step]_vars

C11_Witness ==
    /\ returned.op = "clear"
    /\ returned.status = "200"
    /\ returned.sensor_readings_deleted > returned.daily_stats_deleted
    /\ returned.daily_stats_deleted > 0
    /\ get_readings("", "") = {}
    /\ dailyStats = {}

\* task ids that no POST /sensor-data has returned
C12_NeverIssued == (1 .. (MaxRequests + 1)) \ DOMAIN tasks

\* what the caller of GET /task/{task_id} can tell answers apart by
C12_Signal(task_id) ==
    [status  |-> get_task_status(task_id).status,
     message |-> get_task_status(task_id).message]

\* C12: the status endpoint answers a task id that was never issued with a
\* not-found signal of its own, which differs from the PENDING answer given
\* for a batch that is enqueued and not yet started.
C12_UnknownIdIsNotPending ==
    \A u \in C12_NeverIssued :
        \A t \in DOMAIN tasks :
            tasks[t].pc = "queued" => C12_Signal(u) # C12_Signal(t)

\* the field ids asked for: the two that batches carry and one that none does
C13_FieldIds == {"F1", "F2", "F3"}

\* the sum of the values of the rows with ids lo .. hi, row by row
RECURSIVE C13_Sum(_, _, _)
C13_Sum(rows, lo, hi) ==
    IF lo > hi \/ rows = {} THEN 0
    ELSE IF lo = hi
    THEN LET at == { r \in rows : r.id = lo }
         IN  IF at = {} THEN 0 ELSE (CHOOSE r \in at : TRUE).reading_value
    ELSE LET mid == (lo + hi) \div 2
         IN  C13_Sum({ r \in rows : r.id <= mid }, lo, mid)
               + C13_Sum({ r \in rows : r.id > mid }, mid + 1, hi)

C13_Analytics(db, last, f) ==
    LET rows   == { r \in db : r.field_id = f }
        values == { r.reading_value : r \in rows }
        resp   == get_field_analytics(db, f)
    IN  /\ resp.code = 404 <=> rows = {}
        /\ rows # {} =>
              /\ resp.code = 200
              /\ resp.body.total_readings = Cardinality(rows)
              /\ resp.body.min_value \in values
              /\ resp.body.max_value \in values
              /\ \A v \in values : /\ resp.body.min_value <= v
                                   /\ resp.body.max_value >= v
              /\ resp.body.avg_value[2] > 0
              /\ resp.body.avg_value[1] * Cardinality(rows)
                    = C13_Sum(rows, 1, last) * resp.body.avg_value[2]
              /\ resp.body.sensor_types = { r.sensor_type : r \in rows }

\* the stored readings are three of field F1, type temp, values 10, 20, 30
C13_Example(db) ==
    /\ Cardinality(db) = 3
    /\ \A r \in db : r.field_id = "F1" /\ r.sensor_type = "temp"
    /\ { r.reading_value : r \in db } = {10, 20, 30}

\* db: the stored readings; last: the greatest primary key given out so far
C13_Holds(db, last) ==
    /\ \A r \in db : r.id \in 1 .. last
    /\ \A f \in C13_FieldIds : C13_Analytics(db, last, f)
    /\ C13_Example(db) =>
          get_field_analytics(db, "F1").body =
              [field_id |-> "F1", total_readings |-> 3, avg_value |-> <<20, 1>>,
               min_value |-> 10, max_value |-> 30, sensor_types |-> {"temp"}]

\* C13: the field analytics are not-found exactly when no stored reading has
\* the field id; otherwise they give the number of readings of the field, the
\* least and greatest of their values, their sum divided by their count, and
\* the set of their sensor types (10, 20, 30 of F1/temp give 20, 10, 30, 3 and
\* {temp}).  The analytics depend on the stored readings alone, so they are
\* looked at at the start and after every step that changes the readings.
C13_FieldAnalytics ==
    /\ C13_Holds(readings, nextReadingId - 1)
    /\ [][readings' # readings => C13_Holds(readings', nextReadingId' - 1)]_vars

C13_Witness ==
    /\ C13_Example(readings)
    /\ get_field_analytics(readings, "F1").code = 200
    /\ get_field_analytics(readings, "F1").body.avg_value = <<20, 1>>
    /\ get_field_analytics(readings, "F3").code = 404

\* how far along a reported status is
C14_Rank(status) ==
    CASE status = "PENDING"  -> 0
      [] status = "PROGRESS" -> 1
      [] OTHER               -> 2

C14_Step ==
    \A t \in DOMAIN tasks :
        LET before == get_task_status(t)
            after  == get_task_status(t)'
        IN  tasks'[t] # tasks[t] =>
              /\ after.status \in {"PENDING", "PROGRESS", "SUCCESS", "FAILURE"}
              /\ C14_Rank(after.status) >= C14_Rank(before.status)
              /\ C14_Rank(before.status) = 2 => after = before
              /\ after.status = "PROGRESS" =>
                    /\ after.b = len(tasks[t].batch)
                    /\ after.a <= after.b
                    /\ after.a >= 0
                    /\ before.status = "PROGRESS" => after.a >= before.a

\* C14: the status of a batch task only moves forward, from PENDING to
\* PROGRESS to SUCCESS or FAILURE: a terminal status and its message never
\* change again, a task that has run is never PENDING again, and while it runs
\* its progress has total equal to the batch size and a current value that
\* never decreases and never exceeds total.
C14_StatusMovesForward == [][C14_Step]_vars

C14_Witness ==
    \E t \in DOMAIN tasks :
        /\ get_task_status(t).status = "PROGRESS"
        /\ get_task_status(t).b = len(tasks[t].batch)
        /\ get_task_status(t).a = THRESHOLD
        /\ tasks[t].pc = "loop"

====
